---- MODULE Spec2Model ----
(***************************************************************************)
(* discord-ytdl-core (src/index.ts): the stream composition pipeline.      *)
(*                                                                         *)
(* StreamDownloader(url, options) and arbitraryStream(stream, options)     *)
(* build a chain  inputStream -> transcoder (FFmpeg) -> opus (Encoder),    *)
(* attach listeners that relay the ytdl events and that destroy stages,    *)
(* and return the last stage.  The model keeps, for every call, the        *)
(* stages the call constructed, the pipes between them, the listener       *)
(* lists in registration order, and what each emitter has emitted.         *)
(*                                                                         *)
(* The collaborators (ytdl-core, prism-media, the runtime's streams) are   *)
(* the environment.  Their documented contract is used:                    *)
(*   - emit(ev, args) calls the listeners of ev synchronously, in          *)
(*     registration order; an exception thrown by a listener leaves emit   *)
(*     and skips the listeners after it;                                   *)
(*   - emit('error') on an emitter without an 'error' listener is an       *)
(*     unhandled error: it throws out of emit, or, on runtimes where the   *)
(*     emitter is the destination of a pipe, the pipe's own error          *)
(*     listener destroys the destination instead (both are kept, as a      *)
(*     nondeterministic outcome);                                          *)
(*   - a.pipe(b) forwards data and a's 'end' (b.end()), never a's          *)
(*     'error', and never destroys a when b closes; it unpipes a when b    *)
(*     errors or closes;                                                   *)
(*   - destroy() marks a stage destroyed; 'close' is emitted later;        *)
(*     a stage that ended destroys itself (autoDestroy).                   *)
(***************************************************************************)
EXTENDS Integers, Sequences, FiniteSets, TLC

(* ---------------- bounds ---------------- *)
\* events the stages of one pipeline emit on their own: the ytdl events of
\* the source stream and the 'error' events of the input and the transcoder
MaxEvents == 2

\* the events two pipelines side by side emit between them
MaxPairEvents == 1

(* ---------------- vocabulary ---------------- *)
\* the ytdl events relayed to the returned stream
evn == <<"info", "progress", "abort", "request", "response", "error",
         "redirect", "retry", "reconnect">>

\* the events a ytdl stream emits about the fetch
YtdlEvents == {"info", "progress", "abort", "request", "response", "error",
               "redirect", "retry", "reconnect"}

\* event names that carry listeners in this program
ListenEvents == YtdlEvents \cup {"close"}

\* the stages one call can construct
Stages == {"inputStream", "transcoder", "opus"}

\* two independent call sites; Spec follows the pipeline of call "A"
Calls == {"A", "B"}

\* first argument of either entry point, by the cases the code distinguishes
InputVals == {"undefined", "emptyString", "url", "stream", "buffer"}

\* values of the language, by type: n is the number of a "number", s the
\* text of a "string", l the elements of an "array"
Undefined == [t |-> "undefined", n |-> 0, s |-> "", l |-> <<>>]

NaN == [t |-> "nan", n |-> 0, s |-> "", l |-> <<>>]

Null == [t |-> "null", n |-> 0, s |-> "", l |-> <<>>]

Num(n) == [t |-> "number", n |-> n, s |-> "", l |-> <<>>]

Str(s) == [t |-> "string", n |-> 0, s |-> s, l |-> <<>>]

Arr(l) == [t |-> "array", n |-> 0, s |-> "", l |-> l]

\* the options object with nothing in it but opusEncoded
Options(given, opusEncoded) ==
    [given |-> given, opusEncoded |-> opusEncoded,
     seek |-> Undefined, fmt |-> Undefined, encoderArgs |-> Undefined]

\* options: omitted, or an object whose opusEncoded is truthy or falsy
OptionVals == {Options(FALSE, FALSE), Options(TRUE, FALSE), Options(TRUE, TRUE)}

\* options.seek: missing, not a number, or a number of seconds
SeekVals == {Undefined, NaN, Null, Str("abc"), Num(0), Num(12)}

\* options.fmt: missing, a container name, or not a string
FmtVals == {Undefined, Str("mp3"), Num(3)}

\* options.encoderArgs: missing, a list of arguments, or not a list
EncoderArgsVals == {Undefined, Arr(<<"-af", "bass=g=10">>), Str("-af")}

\* options objects with every field the argument list is built from
ArgOptionVals ==
    {Options(FALSE, FALSE)} \cup
    {[given |-> TRUE, opusEncoded |-> o, seek |-> k, fmt |-> f, encoderArgs |-> e] :
        o \in BOOLEAN, k \in SeekVals, f \in FmtVals, e \in EncoderArgsVals}

\* what an unhandled 'error' does on the runtime at hand
UnhandledOutcomes == {"throw", "destroy"}

VARIABLES pipes, uncaught

vars == <<pipes, uncaught>>

(* ---------------- values ---------------- *)
IsFalsy(v) == v \in {"undefined", "emptyString"}

IsString(v) == v \in {"emptyString", "url"}

\* an omitted options object stands for one that asks for opus
Defaulted_Opus(options) ==
    IF options.given THEN options ELSE Options(TRUE, TRUE)

\* options ??= {}
Defaulted(options) ==
    IF options.given THEN options ELSE Options(TRUE, FALSE)

\* a call that has not been made
Idle ==
    [status |-> "idle", entry |-> "none", input |-> "undefined",
     options |-> Options(FALSE, FALSE), FFmpegArgs |-> <<>>,
     opusEncoded |-> FALSE,
     phase |-> [s \in Stages |-> "absent"],
     pipe |-> [s \in Stages |-> "none"],
     writableEnded |-> [s \in Stages |-> FALSE],
     listeners |-> [s \in Stages |-> [e \in ListenEvents |-> <<>>]],
     returned |-> "none",
     srcLog |-> <<>>, outLog |-> <<>>, tErrs |-> {},
     delivered |-> FALSE, cancelled |-> FALSE,
     destroyedOn |-> [s \in Stages |-> {}]]

\* a call that threw while validating its input
Threw(entry, input, options) ==
    [Idle EXCEPT !.status = "threw", !.entry = entry, !.input = input,
                 !.options = options]

(* ---------------- listeners ---------------- *)
\* the listener destroys its target instead of emitting on it
Relay_AsTeardown(line, target) == [kind |-> "destroy", line |-> line, to |-> <<target>>]

\* (...args) => target.emit(event, ...args)
Relay(line, target) == [kind |-> "relay", line |-> line, to |-> <<target>>]

\* () => { a.destroy(); b.destroy(); }
DestroyHandler(line, targets) == [kind |-> "destroy", line |-> line, to |-> targets]

\* an 'error' listener the caller attaches to the returned stream
UserListener == [kind |-> "user", line |-> 0, to |-> <<>>]

\* emitter.on(ev, h)
On(p, s, ev, h) == [p EXCEPT !.listeners[s][ev] = Append(@, h)]

\* the loop registers the listener twice for every event
RECURSIVE OnAllTwice(_, _, _, _)
OnAllTwice(p, s, evs, h) ==
    IF evs = <<>> THEN p
    ELSE OnAllTwice(On(On(p, s, Head(evs), h), s, Head(evs), h), s, Tail(evs), h)

\* the loop stops one short of the end of the list
RECURSIVE OnAllButLast(_, _, _, _)
OnAllButLast(p, s, evs, h) ==
    IF Len(evs) <= 1 THEN p
    ELSE OnAllButLast(On(p, s, Head(evs), h), s, Tail(evs), h)

\* for (const event of evn) emitter.on(event, h)
RECURSIVE OnAll(_, _, _, _)
OnAll(p, s, evs, h) ==
    IF evs = <<>> THEN p
    ELSE OnAll(On(p, s, Head(evs), h), s, Tail(evs), h)

\* new FFmpeg(...), ytdl(url, options), new Opus.Encoder(...)
Construct(p, s) == [p EXCEPT !.phase[s] = "live"]

\* src.pipe(dest)
Pipe(p, src, dest) == [p EXCEPT !.pipe[src] = dest]

\* return s
Return(p, s) == [p EXCEPT !.returned = s, !.status = "built"]

(* ---------------- the argument list ---------------- *)
Digits == <<"0", "1", "2", "3", "4", "5", "6", "7", "8", "9">>

\* (n).toString() of a whole number
RECURSIVE NumToString(_)
NumToString(n) ==
    IF n < 10 THEN Digits[n + 1]
    ELSE NumToString(n \div 10) \o Digits[(n % 10) + 1]

\* isNaN(v): v is first made a number; null becomes 0, text that is no
\* numeral becomes NaN
IsNaN(v) ==
    \/ v.t \in {"undefined", "nan"}
    \/ v.t = "string" /\ v.s \notin {NumToString(n) : n \in 0..99}

\* v.toString() throws a TypeError: null has no properties
ToStringThrows(v) == v.t = "null"

\* v.toString()
toString(v) == IF v.t = "number" THEN NumToString(v.n) ELSE v.s

\* the default container is another one
Fmt_DefaultMp3(options) == IF options.fmt.t = "string" THEN options.fmt.s ELSE "mp3"

\* `${typeof options.fmt === 'string' ? options.fmt : 's16le'}`
Fmt(options) == IF options.fmt.t = "string" THEN options.fmt.s ELSE "s16le"

\* the flags every call passes
CommonArgs(options) ==
    <<"-analyzeduration", "0", "-loglevel", "0", "-f", Fmt(options),
      "-ar", "48000", "-ac", "2">>

\* the flags of a string input: reconnect, then the input itself
UrlArgs(stream) ==
    <<"-reconnect", "1", "-reconnect_streamed", "1", "-reconnect_delay_max", "5",
      "-i", stream>>

\* the buffer is not told from a readable: no stdin input flag
ArbitraryBaseArgs_NoBuffer(stream, options) ==
    IF IsString(stream) THEN UrlArgs(stream) \o CommonArgs(options)
    ELSE CommonArgs(options)

\* the list arbitraryStream starts from, by the kind of its input
ArbitraryBaseArgs(stream, options) ==
    IF IsString(stream) THEN UrlArgs(stream) \o CommonArgs(options)
    ELSE IF stream = "buffer" THEN CommonArgs(options) \o <<"-i", "-">>
    ELSE CommonArgs(options)

\* the seek pair is pushed instead of unshifted
WithSeek_Push(args, options) ==
    IF ~IsNaN(options.seek) THEN args \o <<"-ss", toString(options.seek)>>
    ELSE args

\* if (!isNaN(options.seek)) FFmpegArgs.unshift('-ss', options.seek.toString())
WithSeek(args, options) ==
    IF ~IsNaN(options.seek) THEN <<"-ss", toString(options.seek)>> \o args
    ELSE args

\* concat without the Array.isArray check: concat appends a value that is no
\* list as one more element
WithEncoderArgs_Unchecked(args, options) ==
    IF options.encoderArgs.t = "array" THEN args \o options.encoderArgs.l
    ELSE IF options.encoderArgs.t = "string" THEN Append(args, options.encoderArgs.s)
    ELSE args

\* if (Array.isArray(options.encoderArgs)) FFmpegArgs = FFmpegArgs.concat(...)
WithEncoderArgs(args, options) ==
    IF options.encoderArgs.t = "array" THEN args \o options.encoderArgs.l
    ELSE args

\* whether building the list throws before it is done
ArgsThrow(options) == ~IsNaN(options.seek) /\ ToStringThrows(options.seek)

\* FFmpegArgs of StreamDownloader
SourceFFmpegArgs(options) ==
    WithEncoderArgs(WithSeek(CommonArgs(options), options), options)

\* FFmpegArgs of arbitraryStream
ArbitraryFFmpegArgs(stream, options) ==
    WithEncoderArgs(WithSeek(ArbitraryBaseArgs(stream, options), options), options)

(* ---------------- the two entry points ---------------- *)
\* the typeof check is missing
ValidUrl_TruthyOnly(url) == ~IsFalsy(url)

\* if (!url) throw ...; if (typeof url !== 'string') throw ...
ValidUrl(url) == ~IsFalsy(url) /\ IsString(url)

\* if (!stream) throw ...
ValidStream(stream) == ~IsFalsy(stream)

\* inputStream.on('error', () => transcoder.destroy())
SourceErrorTeardown == DestroyHandler(89, <<"transcoder">>)

\* output.on('close', () => transcoder.destroy())
SourceCloseTeardown == DestroyHandler(90, <<"transcoder">>)

\* the close listener forgets the transcoder
SourceOpusCloseTeardown_OpusOnly == DestroyHandler(108, <<"opus">>)

\* outputStream.on('close', () => { transcoder.destroy(); opus.destroy(); })
SourceOpusCloseTeardown == DestroyHandler(108, <<"transcoder", "opus">>)

\* the listener names destroy without calling it
InputErrorTeardown_NoCall == DestroyHandler(193, <<>>)

\* stream.on('error', () => transcoder.destroy())
InputErrorTeardown == DestroyHandler(193, <<"transcoder">>)

\* transcoder.on('close', () => transcoder.destroy())
ArbitraryCloseTeardown == DestroyHandler(196, <<"transcoder">>)

\* outputStream.on('close', () => { transcoder.destroy(); opus.destroy(); })
ArbitraryOpusCloseTeardown == DestroyHandler(206, <<"transcoder", "opus">>)

\* the pipeline StreamDownloader(url, options) leaves behind
StreamDownloader(url, options) ==
    IF ~ValidUrl(url) \/ ArgsThrow(Defaulted(options))
    THEN Threw("source", url, options)
    ELSE
      LET opts == Defaulted(options)
          p0 == [Idle EXCEPT !.entry = "source", !.input = url,
                             !.options = options,
                             !.opusEncoded = opts.opusEncoded,
                             !.FFmpegArgs = SourceFFmpegArgs(opts)]
          p1 == Construct(p0, "transcoder")
          p2 == Construct(p1, "inputStream")
          \* output = inputStream.pipe(transcoder), the transcoder itself
          p3 == Pipe(p2, "inputStream", "transcoder")
      IN IF ~opts.opusEncoded
         THEN LET p4 == OnAll(p3, "inputStream", evn, Relay(87, "transcoder"))
                  p5 == On(p4, "inputStream", "error", SourceErrorTeardown)
                  p6 == On(p5, "transcoder", "close", SourceCloseTeardown)
              IN Return(p6, "transcoder")
         ELSE LET p4 == Construct(p3, "opus")
                  \* outputStream = output.pipe(opus), the encoder itself
                  p5 == Pipe(p4, "transcoder", "opus")
                  p6 == On(p5, "transcoder", "error", Relay(102, "opus"))
                  p7 == OnAll(p6, "inputStream", evn, Relay(105, "opus"))
                  p8 == On(p7, "opus", "close", SourceOpusCloseTeardown)
              IN Return(p8, "opus")

\* the pipeline arbitraryStream(stream, options) leaves behind
arbitraryStream(stream, options) ==
    IF ~ValidStream(stream) \/ ArgsThrow(Defaulted(options))
    THEN Threw("arbitraryStream", stream, options)
    ELSE
      LET opts == Defaulted(options)
          p0 == [Idle EXCEPT !.entry = "arbitraryStream", !.input = stream,
                             !.options = options,
                             !.opusEncoded = opts.opusEncoded,
                             !.FFmpegArgs = ArbitraryFFmpegArgs(stream, opts)]
          p1 == Construct(p0, "transcoder")
          \* a buffer becomes Readable.from(stream); a string is read by ffmpeg
          p2 == IF ~IsString(stream)
                THEN On(Pipe(Construct(p1, "inputStream"), "inputStream", "transcoder"),
                        "inputStream", "error", InputErrorTeardown)
                ELSE p1
      IN IF ~opts.opusEncoded
         THEN Return(On(p2, "transcoder", "close", ArbitraryCloseTeardown), "transcoder")
         ELSE LET p3 == Construct(p2, "opus")
                  p4 == Pipe(p3, "transcoder", "opus")
                  p5 == On(p4, "opus", "close", ArbitraryOpusCloseTeardown)
              IN Return(p5, "opus")

(* ---------------- emitting ---------------- *)
\* stage.destroy(): a live stage becomes destroyed, 'close' comes later
DestroyStage(p, s) ==
    [p EXCEPT !.phase[s] = IF @ = "live" THEN "destroyed" ELSE @]

\* a teardown listener running for the event `by` calls destroy() on each target
RECURSIVE DestroyAll(_, _, _)
DestroyAll(p, targets, by) ==
    IF targets = <<>> THEN p
    ELSE LET s == Head(targets)
             p1 == [DestroyStage(p, s) EXCEPT !.destroyedOn[s] = @ \cup {by}]
         IN DestroyAll(p1, Tail(targets), by)

\* whether s was made the destination of a pipe when the call built it
IsPipeDest(p, s) ==
    \/ s = "opus"
    \/ s = "transcoder" /\ p.phase["inputStream"] # "absent"

\* the pipe's own listeners on its destination: 'error' and 'close' unpipe
Unpipe(p, dest) ==
    [p EXCEPT !.pipe = [s \in Stages |-> IF @[s] = dest THEN "none" ELSE @[s]]]

\* what the caller of the returned stream can observe of an emit
Log(p, s, ev, arg) ==
    IF s = p.returned /\ ev \in YtdlEvents
    THEN [p EXCEPT !.outLog = Append(@, [ev |-> ev, arg |-> arg])]
    ELSE p

\* emit('error') with no listener left to take it
Unhandled(p, s, oc) ==
    IF oc = "destroy" /\ IsPipeDest(p, s)
    THEN [p |-> DestroyStage(p, s), threw |-> FALSE]
    ELSE [p |-> p, threw |-> TRUE]

RECURSIVE Emit(_, _, _, _, _)
RECURSIVE RunListeners(_, _, _, _, _, _)

\* the listeners of one emit, in registration order, until one throws
RunListeners(r, ls, s, ev, arg, oc) ==
    IF ls = <<>> \/ r.threw THEN r
    ELSE LET h == Head(ls)
             r1 == CASE h.kind = "relay" -> Emit(r.p, h.to[1], ev, arg, oc)
                     [] h.kind = "destroy" ->
                          [p |-> DestroyAll(r.p, h.to, <<s, ev>>), threw |-> FALSE]
                     [] OTHER -> r
         IN RunListeners(r1, Tail(ls), s, ev, arg, oc)

\* s.emit(ev, arg): the pipeline afterwards, and whether an exception left emit
Emit(p, s, ev, arg, oc) ==
    LET p1 == Log(p, s, ev, arg)
        p2 == IF ev \in {"error", "close"} THEN Unpipe(p1, s) ELSE p1
        ls == p2.listeners[s][ev]
    IN IF ev = "error" /\ ls = <<>>
       THEN Unhandled(p2, s, oc)
       ELSE RunListeners([p |-> p2, threw |-> FALSE], ls, s, ev, arg, oc)

(* ---------------- state predicates ---------------- *)
Built(c) == pipes[c].status = "built"

\* the source or input stream has emitted 'error'
SrcErrored(p) == \E i \in 1..Len(p.srcLog) : p.srcLog[i].ev = "error"

\* destroy() has taken effect on the stage
Destroyed(p, s) == p.phase[s] \in {"destroyed", "closed"}

\* the phase of the stream the call returned
ReturnedPhase(p) == IF p.returned = "none" THEN "absent" ELSE p.phase[p.returned]

\* the caller has an 'error' listener on the returned stream
HasUserListener(p) ==
    /\ p.returned # "none"
    /\ \E i \in 1..Len(p.listeners[p.returned]["error"]) :
          p.listeners[p.returned]["error"][i].kind = "user"

\* the stage whose output is piped into s when the pipeline is built
Feeder(s) == IF s = "opus" THEN "transcoder" ELSE "inputStream"

\* the stage no longer writes: it is gone, it failed, or it was unpiped
Stopped(p, s) ==
    \/ p.phase[s] # "live"
    \/ s = "inputStream" /\ SrcErrored(p)
    \/ p.pipe[s] = "none"

\* how many events the stages of the pipeline have emitted on their own
Emitted(p) == Len(p.srcLog) + Cardinality(p.tErrs)

(* ---------------- actions ---------------- *)
Init ==
    /\ pipes = [c \in Calls |-> Idle]
    /\ uncaught = FALSE

\* const stream = ytdl(url, options)
CallSource(c) ==
    /\ ~uncaught
    /\ pipes[c].status = "idle"
    /\ \E url \in InputVals, options \in OptionVals :
          pipes' = [pipes EXCEPT ![c] = StreamDownloader(url, options)]
    /\ UNCHANGED uncaught

\* const stream = ytdl.arbitraryStream(input, options)
CallArbitrary(c) ==
    /\ ~uncaught
    /\ pipes[c].status = "idle"
    /\ \E stream \in InputVals, options \in OptionVals :
          pipes' = [pipes EXCEPT ![c] = arbitraryStream(stream, options)]
    /\ UNCHANGED uncaught

\* the caller attaches an 'error' listener to the stream it was returned
AttachErrorListener(c) ==
    /\ ~uncaught
    /\ Built(c)
    /\ ~HasUserListener(pipes[c])
    /\ pipes' = [pipes EXCEPT ![c] = On(@, @.returned, "error", UserListener)]
    /\ UNCHANGED uncaught

\* the source stream emits one of the ytdl events; its argument is the
\* emission's number, so that every emission is told from every other
SourceEmitOf(c, events) ==
    /\ ~uncaught
    /\ Built(c)
    /\ pipes[c].entry = "source"
    /\ Emitted(pipes[c]) < MaxEvents
    /\ \E ev \in events, oc \in UnhandledOutcomes :
          LET arg == Len(pipes[c].srcLog) + 1
              p1 == [pipes[c] EXCEPT !.srcLog = Append(@, [ev |-> ev, arg |-> arg])]
              r == Emit(p1, "inputStream", ev, arg, oc)
          IN /\ pipes' = [pipes EXCEPT ![c] = r.p]
             /\ uncaught' = r.threw

\* the source stream emits any of the events ytdl-core emits
SourceEmit(c) == SourceEmitOf(c, YtdlEvents)

\* the readable handed to arbitraryStream (or the one made of a buffer) errors
InputError(c) ==
    /\ ~uncaught
    /\ Built(c)
    /\ pipes[c].entry = "arbitraryStream"
    /\ pipes[c].phase["inputStream"] # "absent"
    /\ Emitted(pipes[c]) < MaxEvents
    /\ \E oc \in UnhandledOutcomes :
          LET arg == Len(pipes[c].srcLog) + 1
              p1 == [pipes[c] EXCEPT !.srcLog = Append(@, [ev |-> "error", arg |-> arg])]
              r == Emit(p1, "inputStream", "error", arg, oc)
          IN /\ pipes' = [pipes EXCEPT ![c] = r.p]
             /\ uncaught' = r.threw

\* the ffmpeg process fails: the transcoder emits 'error'; the k-th such
\* error carries the value -k
TranscoderError(c) ==
    /\ ~uncaught
    /\ Built(c)
    /\ pipes[c].phase["transcoder"] = "live"
    /\ Emitted(pipes[c]) < MaxEvents
    /\ \E oc \in UnhandledOutcomes :
          LET e == 0 - (Cardinality(pipes[c].tErrs) + 1)
              p1 == [pipes[c] EXCEPT !.tErrs = @ \cup {e}]
              r == Emit(p1, "transcoder", "error", e, oc)
          IN /\ pipes' = [pipes EXCEPT ![c] = r.p]
             /\ uncaught' = r.threw

\* whether the stage has read all it will ever read
CanEnd(p, s) ==
    CASE s = "inputStream" -> ~SrcErrored(p)
      [] s = "transcoder" -> p.writableEnded[s] \/ p.phase["inputStream"] = "absent"
      [] OTHER -> p.writableEnded[s]

\* a stage reaches its end: the pipe ends its destination, and the stage
\* destroys itself
StageEnd(c, s) ==
    /\ ~uncaught
    /\ Built(c)
    /\ pipes[c].phase[s] = "live"
    /\ CanEnd(pipes[c], s)
    /\ LET p == pipes[c]
           d == p.pipe[s]
           p1 == IF d # "none" /\ p.phase[d] = "live"
                 THEN [p EXCEPT !.writableEnded[d] = TRUE]
                 ELSE p
       IN pipes' = [pipes EXCEPT ![c] = DestroyStage(p1, s)]
    /\ UNCHANGED uncaught

\* the transcoder is kept in one module-level variable: a 'close' listener
\* that destroys the transcoder destroys the one of every call
EmitClose_SharedTranscoder(c, s) ==
    /\ ~uncaught
    /\ Built(c)
    /\ pipes[c].phase[s] = "destroyed"
    /\ LET p1 == [pipes[c] EXCEPT !.phase[s] = "closed"]
           r == Emit(p1, s, "close", 0, "throw")
           torn == r.p.destroyedOn["transcoder"] # p1.destroyedOn["transcoder"]
       IN /\ pipes' = [d \in Calls |->
                          IF d = c THEN r.p
                          ELSE IF torn THEN DestroyStage(pipes[d], "transcoder")
                          ELSE pipes[d]]
          /\ uncaught' = r.threw

\* a destroyed stage emits 'close'
EmitClose(c, s) ==
    /\ ~uncaught
    /\ Built(c)
    /\ pipes[c].phase[s] = "destroyed"
    /\ LET p1 == [pipes[c] EXCEPT !.phase[s] = "closed"]
           r == Emit(p1, s, "close", 0, "throw")
       IN /\ pipes' = [pipes EXCEPT ![c] = r.p]
          /\ uncaught' = r.threw

\* the consumer cancels: it destroys the stream it was returned
ConsumerDestroy(c) ==
    /\ ~uncaught
    /\ Built(c)
    /\ ReturnedPhase(pipes[c]) = "live"
    /\ pipes' = [pipes EXCEPT ![c] =
                    [DestroyStage(@, @.returned) EXCEPT !.cancelled = TRUE]]
    /\ UNCHANGED uncaught

\* the returned stream hands a chunk to its consumer
Deliver(c) ==
    /\ ~uncaught
    /\ Built(c)
    /\ ReturnedPhase(pipes[c]) = "live"
    /\ pipes' = [pipes EXCEPT ![c].delivered = TRUE]
    /\ UNCHANGED uncaught

\* one pipeline, from its call to its teardown
Step(c) ==
    \/ CallSource(c)
    \/ CallArbitrary(c)
    \/ AttachErrorListener(c)
    \/ SourceEmit(c)
    \/ InputError(c)
    \/ TranscoderError(c)
    \/ \E s \in Stages : StageEnd(c, s)
    \/ \E s \in Stages : EmitClose(c, s)
    \/ ConsumerDestroy(c)
    \/ Deliver(c)

Next == Step("A")

Spec == Init /\ [][Next]_vars

\* a destroyed stage does emit 'close', and a stage whose input ended does end
Fairness ==
    /\ \A s \in Stages : WF_vars(EmitClose("A", s))
    /\ WF_vars(StageEnd("A", "transcoder"))
    /\ WF_vars(StageEnd("A", "opus"))

FairSpec == Spec /\ Fairness

\* ytdl(url, options) with options that carry every field
CallSourceWith(c) ==
    /\ ~uncaught
    /\ pipes[c].status = "idle"
    /\ \E url \in InputVals, options \in ArgOptionVals :
          pipes' = [pipes EXCEPT ![c] = StreamDownloader(url, options)]
    /\ UNCHANGED uncaught

\* ytdl.arbitraryStream(input, options) with options that carry every field
CallArbitraryWith(c) ==
    /\ ~uncaught
    /\ pipes[c].status = "idle"
    /\ \E stream \in InputVals, options \in ArgOptionVals :
          pipes' = [pipes EXCEPT ![c] = arbitraryStream(stream, options)]
    /\ UNCHANGED uncaught

\* one call building its argument list and its pipeline
ArgsNext == CallSourceWith("A") \/ CallArbitraryWith("A")

ArgsSpec == Init /\ [][ArgsNext]_vars

\* two calls, one after the other, each building its own list
ArgsPairNext == \E c \in Calls : CallSourceWith(c) \/ CallArbitraryWith(c)

ArgsPairSpec == Init /\ [][ArgsPairNext]_vars

(* ---------------- two pipelines side by side ---------------- *)
\* the events both pipelines have emitted on their own
TotalEmitted == Emitted(pipes["A"]) + Emitted(pipes["B"])

PairInputVals == {"url", "stream"}

PairOptionVals == {Options(TRUE, FALSE), Options(TRUE, TRUE)}

\* one event that is relayed only, and the one that also tears down
PairEvents == {"progress", "error"}

\* a call of either entry point
PairCall(c) ==
    /\ ~uncaught
    /\ pipes[c].status = "idle"
    /\ \E input \in PairInputVals, options \in PairOptionVals :
          \/ pipes' = [pipes EXCEPT ![c] = StreamDownloader(input, options)]
          \/ pipes' = [pipes EXCEPT ![c] = arbitraryStream(input, options)]
    /\ UNCHANGED uncaught

\* a stage of the pipeline emits an event or an error of its own
PairEmit(c) ==
    /\ TotalEmitted < MaxPairEvents
    /\ (SourceEmitOf(c, PairEvents) \/ InputError(c) \/ TranscoderError(c))

PairStep(c) ==
    \/ PairCall(c)
    \/ PairEmit(c)
    \/ \E s \in Stages : StageEnd(c, s)
    \/ \E s \in Stages : EmitClose(c, s)
    \/ ConsumerDestroy(c)

\* the steps of two pipelines, interleaved in every order
PairNext == \E c \in Calls : PairStep(c)

PairSpec == Init /\ [][PairNext]_vars

(* ---------------- claims ---------------- *)
Range(q) == {q[i] : i \in 1..Len(q)}

\* a is b with some elements left out
RECURSIVE IsSubseq(_, _)
IsSubseq(a, b) ==
    IF a = <<>> THEN TRUE
    ELSE IF b = <<>> THEN FALSE
    ELSE IF Head(a) = Head(b) THEN IsSubseq(Tail(a), Tail(b))
    ELSE IsSubseq(a, Tail(b))

\* a listener running for the event <<s, ev>> has called destroy() on t
TornDownOn(p, t, s, ev) == <<s, ev>> \in p.destroyedOn[t]

\* C1: in a pipeline built by source(), with opusEncoded on or off, once the
\* source stream has emitted 'error' (and the process runs on), a listener of
\* that 'error' has called destroy() on the transcoder.
C1_SourceErrorDestroysTranscoder ==
    \A c \in Calls :
        (Built(c) /\ pipes[c].entry = "source" /\ SrcErrored(pipes[c]) /\ ~uncaught)
            => TornDownOn(pipes[c], "transcoder", "inputStream", "error")

\* C2: in every pipeline, every error value the transcoder has emitted with
\* 'error' has also been emitted with 'error' on the returned stream.
C2_TranscoderErrorReachesCaller ==
    \A c \in Calls :
        Built(c) =>
            \A e \in pipes[c].tErrs : [ev |-> "error", arg |-> e] \in Range(pipes[c].outLog)

\* C3: in a pipeline built by source() whose teardown listener is installed
\* on the source stream, once the source stream has emitted 'error' while
\* the caller had no 'error' listener on the returned stream, the teardown
\* listener has still run: destroy() was called on the transcoder.
C3_TeardownWithoutErrorListener ==
    \A c \in Calls :
        (/\ Built(c)
         /\ pipes[c].entry = "source"
         /\ ~pipes[c].opusEncoded
         /\ SrcErrored(pipes[c])
         /\ ~HasUserListener(pipes[c]))
            => TornDownOn(pipes[c], "transcoder", "inputStream", "error")

\* C4: in every pipeline, once the returned stream has emitted 'close', a
\* listener of that 'close' has called destroy() on the transcoder, and on
\* the encoder when the pipeline has one.
C4_CloseTearsDown ==
    \A c \in Calls :
        (Built(c) /\ ReturnedPhase(pipes[c]) = "closed")
            => /\ TornDownOn(pipes[c], "transcoder", pipes[c].returned, "close")
               /\ pipes[c].phase["opus"] # "absent"
                    => TornDownOn(pipes[c], "opus", pipes[c].returned, "close")

\* an encoded pipeline ran to its normal end and closed, and the close
\* listener destroyed both stages
C4_Witness ==
    \E c \in Calls :
        /\ Built(c)
        /\ pipes[c].returned = "opus"
        /\ pipes[c].phase["opus"] = "closed"
        /\ pipes[c].writableEnded["opus"]
        /\ ~pipes[c].cancelled
        /\ TornDownOn(pipes[c], "transcoder", "opus", "close")
        /\ TornDownOn(pipes[c], "opus", "opus", "close")

\* C5: once the consumer has destroyed the returned stream and that stream
\* has closed, no stage constructed for the call is still live.
C5_CancelReleasesEveryStage ==
    \A c \in Calls :
        (Built(c) /\ pipes[c].cancelled /\ ReturnedPhase(pipes[c]) = "closed")
            => \A s \in Stages : pipes[c].phase[s] # "live"

\* C6: in a pipeline built by source(), with opusEncoded on or off, after
\* the source stream has emitted 'error' (the caller listening for 'error',
\* the process running on) the returned stream eventually closes.  Under
\* FairSpec every destroyed stage closes and every ended pipe drains, so a
\* behaviour that violates this ends in a state where no stage is destroyed
\* or ending: the returned stream stays open until its consumer gives up.
C6_SourceErrorClosesReturned ==
    \A c \in Calls :
        (/\ Built(c)
         /\ pipes[c].entry = "source"
         /\ SrcErrored(pipes[c])
         /\ HasUserListener(pipes[c])
         /\ ~uncaught)
            ~> (ReturnedPhase(pipes[c]) = "closed" \/ uncaught)

\* C7: in a pipeline built by source(), the events the source stream has
\* emitted appear on the returned stream with the same names and arguments
\* and in the same order, whether or not an encoder sits in between.
C7_RelayPreservesOrder ==
    \A c \in Calls :
        (Built(c) /\ pipes[c].entry = "source")
            => IsSubseq(pipes[c].srcLog, pipes[c].outLog)

\* two different events went from the source through an encoded pipeline
C7_Witness ==
    \E c \in Calls :
        /\ Built(c)
        /\ pipes[c].entry = "source"
        /\ pipes[c].returned = "opus"
        /\ pipes[c].srcLog = <<[ev |-> "progress", arg |-> 1], [ev |-> "error", arg |-> 2]>>
        /\ pipes[c].outLog = pipes[c].srcLog

\* C8: in both entry points, once the input stage has emitted 'error' (and
\* the process runs on), that error has been emitted with 'error' on the
\* returned stream, and the transcoder and the encoder, if any, are destroyed.
C8_InputErrorSurfacesAndTearsDown ==
    \A c \in Calls :
        (Built(c) /\ SrcErrored(pipes[c]) /\ ~uncaught)
            => /\ \A i \in 1..Len(pipes[c].srcLog) :
                    pipes[c].srcLog[i].ev = "error"
                        => pipes[c].srcLog[i] \in Range(pipes[c].outLog)
               /\ Destroyed(pipes[c], "transcoder")
               /\ pipes[c].phase["opus"] # "absent" => Destroyed(pipes[c], "opus")

\* C9: in arbitraryStream(), with a readable or a buffer as input, once the
\* input stream has emitted 'error', a listener of that 'error' has called
\* destroy() on the transcoder, opusEncoded on or off; with a string as
\* input there is no input stream and nothing is piped into the transcoder.
C9_ArbitraryInputErrorDestroysTranscoder ==
    \A c \in Calls :
        (Built(c) /\ pipes[c].entry = "arbitraryStream")
            => /\ (~IsString(pipes[c].input) /\ SrcErrored(pipes[c]))
                    => TornDownOn(pipes[c], "transcoder", "inputStream", "error")
               /\ IsString(pipes[c].input)
                    => /\ pipes[c].phase["inputStream"] = "absent"
                       /\ \A s \in Stages : pipes[c].pipe[s] # "transcoder"

\* the readable made of a buffer errored in an encoded pipeline
C9_Witness ==
    \E c \in Calls :
        /\ Built(c)
        /\ pipes[c].entry = "arbitraryStream"
        /\ pipes[c].input = "buffer"
        /\ pipes[c].opusEncoded
        /\ SrcErrored(pipes[c])
        /\ Destroyed(pipes[c], "transcoder")

\* C10: source(url) with url missing or not a string, and
\* arbitraryStream(input) with a falsy input, throw, and a call that threw
\* has constructed no stage, piped nothing and attached no listener.
C10_ValidationBeforeConstruction ==
    \A c \in Calls :
        LET p == pipes[c]
            bad == \/ p.entry = "source"
                      /\ p.input \in {"undefined", "emptyString", "stream", "buffer"}
                   \/ p.entry = "arbitraryStream"
                      /\ p.input \in {"undefined", "emptyString"}
        IN /\ (p.status # "idle" /\ bad) => p.status = "threw"
           /\ p.status = "threw"
                => /\ \A s \in Stages :
                        /\ p.phase[s] = "absent"
                        /\ p.pipe[s] = "none"
                        /\ \A e \in ListenEvents : p.listeners[s][e] = <<>>

\* source() was handed a url that is not a string, and threw
C10_Witness ==
    \E c \in Calls :
        /\ pipes[c].status = "threw"
        /\ pipes[c].entry = "source"
        /\ pipes[c].input = "stream"

\* C11: in both entry points and for every options value, omitted options
\* included, an encoder is constructed exactly when options.opusEncoded is
\* truthy; the returned stream is then the encoder, and the transcoder
\* otherwise.
C11_EncoderIffOpusEncoded ==
    \A c \in Calls :
        Built(c) =>
            LET asked == pipes[c].options.given /\ pipes[c].options.opusEncoded
            IN /\ (pipes[c].phase["opus"] # "absent") <=> asked
               /\ pipes[c].returned = IF asked THEN "opus" ELSE "transcoder"

\* arbitraryStream() was called without options and returned the transcoder
C11_Witness ==
    \E c \in Calls :
        /\ Built(c)
        /\ pipes[c].entry = "arbitraryStream"
        /\ ~pipes[c].options.given
        /\ pipes[c].returned = "transcoder"
        /\ pipes[c].phase["opus"] = "absent"

\* whether the first argument passes the entry point's validation
ValidInput(p) ==
    \/ p.entry = "source" /\ p.input = "url"
    \/ p.entry = "arbitraryStream" /\ p.input \in {"url", "stream", "buffer"}

\* C12: for every numeric seek and every input variant, the argument list
\* begins with '-ss' and the seek as decimal text, whatever fmt and
\* encoderArgs are, so the pair precedes every reconnect and input flag.
C12_SeekPairLeads ==
    \A c \in Calls :
        LET p == pipes[c] IN
        (p.status # "idle" /\ ValidInput(p) /\ p.options.seek.t = "number")
            => /\ p.status = "built"
               /\ Len(p.FFmpegArgs) >= 2
               /\ p.FFmpegArgs[1] = "-ss"
               /\ <<p.options.seek.n, p.FFmpegArgs[2]>> \in {<<0, "0">>, <<12, "12">>}
               /\ \A i \in 1..Len(p.FFmpegArgs) :
                    p.FFmpegArgs[i] \in {"-ss", "-reconnect", "-i"} => (i = 1 \/ i > 2)

\* a seek of 12 leads the list of a string input, ahead of its reconnect flags
C12_Witness ==
    \E c \in Calls :
        /\ Built(c)
        /\ pipes[c].entry = "arbitraryStream"
        /\ pipes[c].input = "url"
        /\ pipes[c].options.encoderArgs.t = "array"
        /\ SubSeq(pipes[c].FFmpegArgs, 1, 3) = <<"-ss", "12", "-reconnect">>

\* C13: a seek that is present but no valid number (NaN, null, text that is
\* no number) is taken as absent: the call does not throw, and its argument
\* list is the one the same call builds with seek omitted.
C13_MalformedSeekIgnored ==
    \A c \in Calls :
        LET p == pipes[c]
            without == [p.options EXCEPT !.seek = Undefined]
        IN (/\ p.status # "idle"
            /\ ValidInput(p)
            /\ p.options.seek \in {NaN, Null, Str("abc")})
               => /\ p.status = "built"
                  /\ p.FFmpegArgs = IF p.entry = "source"
                                    THEN SourceFFmpegArgs(without)
                                    ELSE ArbitraryFFmpegArgs(p.input, without)

\* C14: the argument list is the list of the same call without encoderArgs,
\* followed by the elements of encoderArgs in order when encoderArgs is a
\* list, and by nothing when it is any other value; a list encoderArgs thus
\* ends the argument list, also after the stdin input flag of a buffer.
C14_EncoderArgsAppended ==
    \A c \in Calls :
        LET p == pipes[c]
            opts == Defaulted(p.options)
            without == [opts EXCEPT !.encoderArgs = Undefined]
            base == IF p.entry = "source"
                    THEN SourceFFmpegArgs(without)
                    ELSE ArbitraryFFmpegArgs(p.input, without)
        IN p.status = "built"
              => p.FFmpegArgs = IF opts.encoderArgs.t = "array"
                                THEN base \o opts.encoderArgs.l
                                ELSE base

\* a buffer with a list encoderArgs: the list follows the stdin input flag
C14_Witness ==
    \E c \in Calls :
        LET a == pipes[c].FFmpegArgs IN
        /\ Built(c)
        /\ pipes[c].input = "buffer"
        /\ Len(a) >= 4
        /\ SubSeq(a, Len(a) - 3, Len(a)) = <<"-i", "-", "-af", "bass=g=10">>

\* b occurs in a as a run of adjacent elements starting at i
RunAt(a, i, b) == i + Len(b) - 1 <= Len(a) /\ SubSeq(a, i, i + Len(b) - 1) = b

\* C15: in arbitraryStream(), a string input gives the reconnect flags and
\* '-i' <input> right before the common flags; a buffer gives '-i' '-'
\* right after the common flags and no reconnect flag; a readable gives
\* neither a reconnect flag nor an '-i' flag.
C15_InputSelectionByVariant ==
    \A c \in Calls :
        LET p == pipes[c]
            a == p.FFmpegArgs
            reconnect == {"-reconnect", "-reconnect_streamed", "-reconnect_delay_max"}
        IN (p.status = "built" /\ p.entry = "arbitraryStream")
            => /\ p.input = "url" =>
                    \E i \in {1, 3} :
                        RunAt(a, i, <<"-reconnect", "1", "-reconnect_streamed", "1",
                                      "-reconnect_delay_max", "5", "-i", "url",
                                      "-analyzeduration">>)
               /\ p.input = "buffer" =>
                    /\ \E i \in 1..Len(a) : RunAt(a, i, <<"-ac", "2", "-i", "-">>)
                    /\ Range(a) \cap reconnect = {}
               /\ p.input = "stream" => Range(a) \cap (reconnect \cup {"-i"}) = {}

\* a buffer was given with a seek: stdin follows the common flags
C15_Witness ==
    \E c \in Calls :
        /\ Built(c)
        /\ pipes[c].entry = "arbitraryStream"
        /\ pipes[c].input = "buffer"
        /\ pipes[c].options.seek = Num(0)
        /\ RunAt(pipes[c].FFmpegArgs, 11, <<"-ac", "2", "-i", "-">>)

\* C16: the value after '-f' is options.fmt when a format name is given and
\* 's16le' when fmt is omitted, and two separate calls of the same entry
\* point with the same input and options build the same argument list.
C16_FmtDefaultAndDeterminism ==
    /\ \A c \in Calls :
          LET p == pipes[c]
              fmt == Defaulted(p.options).fmt
          IN (p.status = "built" /\ fmt.t \in {"string", "undefined"})
                => /\ \E i \in 1..Len(p.FFmpegArgs) : p.FFmpegArgs[i] = "-f"
                   /\ \A i \in 1..Len(p.FFmpegArgs) - 1 :
                        p.FFmpegArgs[i] = "-f"
                            => p.FFmpegArgs[i + 1] =
                                  IF fmt.t = "string" THEN fmt.s ELSE "s16le"
    /\ \A c, d \in Calls :
          (/\ Built(c) /\ Built(d)
           /\ pipes[c].entry = pipes[d].entry
           /\ pipes[c].input = pipes[d].input
           /\ pipes[c].options = pipes[d].options)
              => pipes[c].FFmpegArgs = pipes[d].FFmpegArgs

\* two calls with the same options, fmt omitted, built the same s16le list
C16_Witness ==
    /\ Built("A") /\ Built("B")
    /\ pipes["A"].entry = "source" /\ pipes["B"].entry = "source"
    /\ pipes["A"].options = pipes["B"].options
    /\ pipes["A"].options.given
    /\ pipes["A"].options.fmt = Undefined
    /\ pipes["A"].options.seek = Num(12)
    /\ pipes["A"].FFmpegArgs = pipes["B"].FFmpegArgs
    /\ RunAt(pipes["A"].FFmpegArgs, 7, <<"-f", "s16le">>)

\* C17: in every teardown path, a stage the wiring has destroyed is fed by
\* no stage that is still live and was never stopped: when the encoder is
\* torn down the transcoder has stopped, and when the transcoder is torn down
\* the source or input stream feeding it has stopped.
C17_TeardownUpstreamFirst ==
    \A c \in Calls : \A s \in {"transcoder", "opus"} :
        LET p == pipes[c] IN
        (/\ p.status = "built"
         /\ Destroyed(p, s)
         /\ p.destroyedOn[s] # {}
         /\ p.phase[Feeder(s)] # "absent")
            => Stopped(p, Feeder(s))

\* C19: in a pipeline built by source(), every emission of the source stream
\* appears exactly once on the returned stream; one 'error' of the source is
\* one 'error' on the returned stream, with or without an encoder.
C19_OneEmissionPerSourceEvent ==
    \A c \in Calls :
        LET p == pipes[c] IN
        (p.status = "built" /\ p.entry = "source")
            => \A i \in 1..Len(p.srcLog) :
                  Cardinality({j \in 1..Len(p.outLog) : p.outLog[j] = p.srcLog[i]}) = 1

\* one 'error' of the source reached the encoder a caller listens on, once
C19_Witness ==
    \E c \in Calls :
        /\ Built(c)
        /\ pipes[c].entry = "source"
        /\ pipes[c].returned = "opus"
        /\ HasUserListener(pipes[c])
        /\ pipes[c].srcLog = <<[ev |-> "error", arg |-> 1]>>
        /\ pipes[c].outLog = <<[ev |-> "error", arg |-> 1]>>

\* the last emission of the source or input stream in this step, if any
NonErrorRelayed(c) ==
    /\ Len(pipes'[c].srcLog) = Len(pipes[c].srcLog) + 1
    /\ pipes'[c].srcLog[Len(pipes'[c].srcLog)].ev # "error"

\* C20: the listeners the entry points install call destroy() on the
\* transcoder or the encoder only for an 'error' of the source or input
\* stream or for a 'close' of the returned stream, and a step in which the
\* source emits an event other than 'error' changes the phase of no stage.
C20_NoSpuriousTeardown ==
    [][\A c \in Calls :
          /\ \A s \in {"transcoder", "opus"} :
                pipes'[c].destroyedOn[s] \subseteq
                    {<<"inputStream", "error">>, <<pipes'[c].returned, "close">>}
          /\ NonErrorRelayed(c) =>
                /\ pipes'[c].phase = pipes[c].phase
                /\ pipes'[c].destroyedOn = pipes[c].destroyedOn]_vars

\* two events other than 'error' were relayed and every stage is still live
C20_Witness ==
    \E c \in Calls :
        /\ Built(c)
        /\ pipes[c].entry = "source"
        /\ Len(pipes[c].srcLog) = 2
        /\ pipes[c].outLog = pipes[c].srcLog
        /\ \A i \in 1..2 : pipes[c].srcLog[i].ev # "error"
        /\ \A s \in Stages : pipes[c].phase[s] = "live"
        /\ \A s \in Stages : pipes[c].destroyedOn[s] = {}

====
